---- MODULE Spec2Model ----
(***************************************************************************)
(* go-sql-lsh: an LSH index kept in one SQL table.  The model holds the    *)
(* storage (the table, its rows, the indexes), the SqlLsh instance with    *)
(* its prepared statements, and the Query producer with its sink.          *)
(* Statements are modelled by their structure (columns and placeholders),  *)
(* the storage by standard SQL semantics (primary key, NULL, three-valued  *)
(* WHERE, transactions).                                                   *)
(***************************************************************************)
EXTENDS Integers, Sequences, FiniteSets, TLC

\* ---------------------------------------------------------------- bounds
MaxK == 2
MaxL == 2
MaxNeg == 2
MaxHash == 1
MaxId == 2
MaxBatch == 2
MaxShort == 1

\* ------------------------------------------------------------ input sets
Params == (0 - MaxNeg)..MaxK
LParams == (0 - MaxNeg)..MaxL
Hash == 0..MaxHash
Ids == 1..MaxId
Dialects == {"sqlite", "postgres"}

SeqsUpTo(S, n) == UNION {[1..m -> S] : m \in 0..n}

\* A nil interface{} value, stored as SQL NULL.
NULL == 0 - 1

Range(s) == {s[i] : i \in 1..Len(s)}

\* All orders in which the storage may hand back a set of rows.
Perms(S) == {p \in [1..Cardinality(S) -> S] : \A i, j \in 1..Cardinality(S) : p[i] = p[j] => i = j}

\* ------------------------------------------------- placeholders (varFmt)
\* The token "?" of sqlite; the token "$n" of postgres is the number n >= 1.
Qmark == 0

varFmt(d, i) == IF d = "sqlite" THEN Qmark ELSE i + 1

\* The argument a placeholder stands for: a "?" takes the argument at its
\* own ordinal position in the statement, "$n" takes the n-th argument.
BindArg(tok, ordinal, args) == IF tok = Qmark THEN args[ordinal] ELSE args[tok]

\* ---------------------------------------------------- statement builders
\* The hv_ columns of the CREATE TABLE text, in order (after the id column).
createTableStr(k, l) == [i \in 1..(k * l) |-> i - 1]

\* make([]string, k*l+1) with a negative length, or createSeg[0] of an empty slice.
createTableStrPanics(k, l) == k * l + 1 <= 0

\* The placeholders of INSERT INTO t VALUES(...), in order.
createInsertStmt(k, l, d) == [i \in 1..(k * l + 1) |-> varFmt(d, i - 1)]

\* The predicate with the column computed from l in place of k.
QueryPredByL(k, l, d, i, j) == [col |-> l * i + j, var |-> varFmt(d, l * i + j)]

\* The predicate "hv_c = <placeholder>" at place j of group i (both from 0).
QueryPred(k, l, d, i, j) == [col |-> k * i + j, var |-> varFmt(d, k * i + j)]

\* A group whose predicates are joined by " OR ".
QueryGroupOr(k, l, d, i) == [join |-> "OR", preds |-> [j \in 1..k |-> QueryPred(k, l, d, i, j - 1)]]

\* One parenthesised group: its k predicates joined by " AND ".
QueryGroup(k, l, d, i) == [join |-> "AND", preds |-> [j \in 1..k |-> QueryPred(k, l, d, i, j - 1)]]

\* The WHERE clause: l parenthesised groups joined by " OR ".
createQueryStmt(k, l, d) == [join |-> "OR", groups |-> [i \in 1..l |-> QueryGroup(k, l, d, i - 1)]]

\* make([]string, l) or make([]string, k) with a negative length.
createQueryStmtPanics(k, l) == l < 0 \/ k < 0

\* "WHERE;" or "WHERE()": the statement does not parse, Prepare fails.
createQueryStmtFails(k, l) == l = 0 \/ k = 0

\* CREATE INDEX ht_i ON t (hv_{k*i}, ..., hv_{k*i+k-1}) for i in [0, l).
createIndexStmts(k, l) == [i \in 1..l |-> [name |-> i - 1, cols |-> [j \in 1..k |-> k * (i - 1) + (j - 1)]]]

\* ------------------------------------------------------------------ state
VARIABLES table, indexes, inst, q, out, consumer, closed, ret

vars == <<table, indexes, inst, q, out, consumer, closed, ret>>

NoTable == [exists |-> FALSE, ncols |-> 0, rows |-> {}]
NoInst == [built |-> FALSE]
QIdle == [pc |-> "idle", sig |-> <<>>, rows |-> <<>>, set |-> {}, id |-> 0]
NoRet == [op |-> "none", err |-> "nil", arg |-> <<>>]

Returned(op, err, arg) == [op |-> op, err |-> err, arg |-> arg]

Idle == ret.op = "none" /\ q.pc = "idle"

Init ==
    /\ table = NoTable
    /\ indexes = {}
    /\ inst = NoInst
    /\ q = QIdle
    /\ out = <<>>
    /\ consumer = "recv"
    /\ closed = FALSE
    /\ ret = NoRet

\* ------------------------------------------------------------ transactions
\* A storage fault: 0 is none, 1 fails Begin, 1+i fails the i-th Exec of the
\* transaction, n+2 fails Commit (n the number of Exec calls).  Faults are
\* injected into the transactions, whose rollback branches they reach; the
\* SELECT of Query and the Prepare calls are taken to succeed on a
\* statement that parses.
FaultPoints(n) == 0..(n + 2)

\* ------------------------------------------------------------- NewSqlLsh
\* The outcome of NewSqlLsh(k, l, "lshtable", db, varFmt) on storage tb.
NewOutcome(tb, k, l, fault) ==
    IF fault = 1 THEN [err |-> "storage", created |-> FALSE]
    ELSE IF createTableStrPanics(k, l) THEN [err |-> "panic", created |-> FALSE]
    ELSE IF tb.exists THEN [err |-> "exists", created |-> FALSE]
    ELSE IF fault \in {2, 3} THEN [err |-> "storage", created |-> FALSE]
    ELSE IF createQueryStmtPanics(k, l) THEN [err |-> "panic", created |-> TRUE]
    ELSE IF createQueryStmtFails(k, l) THEN [err |-> "prepare", created |-> TRUE]
    ELSE [err |-> "nil", created |-> TRUE]

NewSqlLsh ==
    /\ Idle
    /\ \E k \in Params, l \in LParams, d \in Dialects, fault \in FaultPoints(1) :
       LET o == NewOutcome(table, k, l, fault) IN
        /\ table' = IF o.created
                    THEN [exists |-> TRUE, ncols |-> Len(createTableStr(k, l)), rows |-> {}]
                    ELSE table
        /\ inst' = IF o.err = "nil"
                   THEN [built |-> TRUE, k |-> k, l |-> l, d |-> d,
                         insertStmt |-> createInsertStmt(k, l, d),
                         queryStmt |-> createQueryStmt(k, l, d),
                         indexStmts |-> createIndexStmts(k, l)]
                   ELSE inst
        /\ ret' = Returned("NewSqlLsh", o.err, [k |-> k, l |-> l])
    /\ UNCHANGED <<indexes, q, out, consumer, closed>>

\* The signatures a caller may pass to an index of n columns: every
\* signature of length n over Hash, and the signatures of zeros that are up
\* to MaxShort shorter or one longer.
Signatures(n) ==
    [1..n -> Hash] \cup {[i \in 1..m |-> 0] : m \in {x \in 0..(n + 1) : x >= n - MaxShort}}

\* ------------------------------------------------------ storage: INSERT
\* The values of INSERT INTO t VALUES(...) once the arguments are bound.
BoundValues(stmt, args) == [p \in 1..Len(stmt) |-> BindArg(stmt[p], p, args)]

\* Exec of the insert statement: the values go to the columns in table
\* order (id, hv_0, ...); the primary key rejects an id already stored.
ExecInsert(rows, stmt, args) ==
    LET v == BoundValues(stmt, args) IN
    IF \E r \in rows : r.id = v[1]
    THEN [ok |-> FALSE, rows |-> rows]
    ELSE [ok |-> TRUE, rows |-> rows \cup {[id |-> v[1], hv |-> [c \in 1..(Len(v) - 1) |-> v[c + 1]]]}]

\* ----------------------------------------------------------------- Index
RECURSIVE IndexLoop(_, _, _, _)
\* The loop of Index over indexStmts from statement i on, inside the
\* transaction: CREATE INDEX fails on a name that exists.
IndexLoop(idx, stmts, fault, i) ==
    IF i > Len(stmts) THEN [err |-> "nil", idx |-> idx]
    ELSE IF fault = i + 1 THEN [err |-> "storage", idx |-> idx]
    ELSE IF \E x \in idx : x.name = stmts[i].name THEN [err |-> "exists", idx |-> idx]
    ELSE IndexLoop(idx \cup {stmts[i]}, stmts, fault, i + 1)

\* Index without the rollback: what the loop created stays.
IndexTxNoRollback(idx, stmts, fault) ==
    IF fault = 1 THEN [err |-> "storage", idx |-> idx]
    ELSE LET r == IndexLoop(idx, stmts, fault, 1) IN
         IF r.err # "nil" THEN r
         ELSE IF fault = Len(stmts) + 2 THEN [err |-> "storage", idx |-> r.idx]
         ELSE r

\* Index as one transaction: Begin, the l statements, Commit; any failure
\* rolls back to the indexes there were.
IndexTx(idx, stmts, fault) ==
    IF fault = 1 THEN [err |-> "storage", idx |-> idx]
    ELSE LET r == IndexLoop(idx, stmts, fault, 1) IN
         IF r.err # "nil" THEN [err |-> r.err, idx |-> idx]
         ELSE IF fault = Len(stmts) + 2 THEN [err |-> "storage", idx |-> idx]
         ELSE r

Index ==
    /\ Idle
    /\ inst.built
    /\ \E fault \in FaultPoints(inst.l) :
       LET r == IndexTx(indexes, inst.indexStmts, fault) IN
        /\ indexes' = r.idx
        /\ ret' = Returned("Index", r.err, <<>>)
    /\ UNCHANGED <<table, inst, q, out, consumer, closed>>

\* ---------------------------------------------------------------- Insert
\* row := make([]interface{}, len(sig)+1); row[0] = id; row[i+1] = sig[i].
InsertRow(id, sig) == [p \in 1..(Len(sig) + 1) |-> IF p = 1 THEN id ELSE sig[p - 1]]

\* Insert with the length check only rejecting longer signatures.
InsertOutcomeLax(rows, lsh, id, sig, fault) ==
    IF Len(sig) > lsh.k * lsh.l THEN [err |-> "SizeMismatch", rows |-> rows]
    ELSE IF fault = 1 THEN [err |-> "storage", rows |-> rows]
    ELSE IF Len(InsertRow(id, sig)) # Len(lsh.insertStmt) THEN [err |-> "storage", rows |-> rows]
    ELSE LET e == ExecInsert(rows, lsh.insertStmt, InsertRow(id, sig)) IN
         IF fault = 2 THEN [err |-> "storage", rows |-> rows]
         ELSE IF ~e.ok THEN [err |-> "constraint", rows |-> rows]
         ELSE IF fault = 3 THEN [err |-> "storage", rows |-> rows]
         ELSE [err |-> "nil", rows |-> e.rows]

\* Insert: the length check, then one transaction around one Exec.
InsertOutcome(rows, lsh, id, sig, fault) ==
    IF Len(sig) # lsh.k * lsh.l THEN [err |-> "SizeMismatch", rows |-> rows]
    ELSE IF fault = 1 THEN [err |-> "storage", rows |-> rows]
    ELSE LET e == ExecInsert(rows, lsh.insertStmt, InsertRow(id, sig)) IN
         IF fault = 2 THEN [err |-> "storage", rows |-> rows]
         ELSE IF ~e.ok THEN [err |-> "constraint", rows |-> rows]
         ELSE IF fault = 3 THEN [err |-> "storage", rows |-> rows]
         ELSE [err |-> "nil", rows |-> e.rows]

Insert ==
    /\ Idle
    /\ inst.built
    /\ \E id \in Ids, sig \in Signatures(inst.k * inst.l), fault \in FaultPoints(1) :
       LET r == InsertOutcome(table.rows, inst, id, sig, fault) IN
        /\ table' = [table EXCEPT !.rows = r.rows]
        /\ ret' = Returned("Insert", r.err, [id |-> id, n |-> Len(sig)])
    /\ UNCHANGED <<indexes, inst, q, out, consumer, closed>>

\* ----------------------------------------------------------- BatchInsert
\* row := make([]interface{}, l*k+1); row[0] = ids[i]; row[j+1] = sigs[i][j]
\* for j < len(sigs[i]); what is not assigned stays nil.
BatchRow(id, sig, n) == [p \in 1..(n + 1) |-> IF p = 1 THEN id ELSE IF p - 1 <= Len(sig) THEN sig[p - 1] ELSE NULL]

RECURSIVE BatchLoop(_, _, _, _, _, _)
\* The loop of BatchInsert from row i on, inside the transaction.  A
\* signature longer than k*l writes past the end of row: a run-time panic.
BatchLoop(rows, lsh, ids, sigs, fault, i) ==
    IF i > Len(sigs) THEN [err |-> "nil", rows |-> rows]
    ELSE IF Len(sigs[i]) > lsh.k * lsh.l THEN [err |-> "panic", rows |-> rows]
    ELSE IF fault = i + 1 THEN [err |-> "storage", rows |-> rows]
    ELSE LET e == ExecInsert(rows, lsh.insertStmt, BatchRow(ids[i], sigs[i], lsh.k * lsh.l)) IN
         IF ~e.ok THEN [err |-> "constraint", rows |-> rows]
         ELSE BatchLoop(e.rows, lsh, ids, sigs, fault, i + 1)

\* BatchInsert: the two checks (sigs[0] of an empty batch is a run-time
\* panic), then one transaction around the loop.  What a failed or
\* abandoned transaction wrote is not persisted.
BatchOutcome(rows, lsh, ids, sigs, fault) ==
    IF Len(sigs) # Len(ids) THEN [err |-> "CountMismatch", rows |-> rows]
    ELSE IF Len(sigs) = 0 THEN [err |-> "panic", rows |-> rows]
    ELSE IF Len(sigs[1]) # lsh.k * lsh.l THEN [err |-> "SizeMismatch", rows |-> rows]
    ELSE IF fault = 1 THEN [err |-> "storage", rows |-> rows]
    ELSE LET r == BatchLoop(rows, lsh, ids, sigs, fault, 1) IN
         IF r.err # "nil" THEN [err |-> r.err, rows |-> rows]
         ELSE IF fault = Len(sigs) + 2 THEN [err |-> "storage", rows |-> rows]
         ELSE r

BatchInsert ==
    /\ Idle
    /\ inst.built
    /\ \E ids \in SeqsUpTo(Ids, MaxBatch), sigs \in SeqsUpTo(Signatures(inst.k * inst.l), MaxBatch) :
       \E fault \in {0, Len(sigs) + 2} :
       LET r == BatchOutcome(table.rows, inst, ids, sigs, fault) IN
        /\ table' = [table EXCEPT !.rows = r.rows]
        /\ ret' = Returned("BatchInsert", r.err,
                           [ids |-> ids, lens |-> [i \in 1..Len(sigs) |-> Len(sigs[i])]])
    /\ UNCHANGED <<indexes, inst, q, out, consumer, closed>>

\* ------------------------------------------------------ storage: SELECT
\* SQL's three-valued comparison: anything compared with NULL is unknown.
Eq3(a, b) == IF a = NULL \/ b = NULL THEN "U" ELSE IF a = b THEN "T" ELSE "F"

And3(vals) ==
    IF \E i \in 1..Len(vals) : vals[i] = "F" THEN "F"
    ELSE IF \E i \in 1..Len(vals) : vals[i] = "U" THEN "U"
    ELSE "T"

Or3(vals) ==
    IF \E i \in 1..Len(vals) : vals[i] = "T" THEN "T"
    ELSE IF \E i \in 1..Len(vals) : vals[i] = "U" THEN "U"
    ELSE "F"

Join3(join, vals) == IF join = "AND" THEN And3(vals) ELSE Or3(vals)

RECURSIVE PredsBefore(_, _)
\* How many predicates the groups before group i hold.
PredsBefore(groups, i) == IF i <= 1 THEN 0 ELSE PredsBefore(groups, i - 1) + Len(groups[i - 1].preds)

\* The value of predicate j of group i on row r, its placeholder bound.
PredValue(r, groups, i, j, args) ==
    Eq3(r.hv[groups[i].preds[j].col + 1],
        BindArg(groups[i].preds[j].var, PredsBefore(groups, i) + j, args))

\* The value of the WHERE clause on row r.
Where3(r, stmt, args) ==
    Join3(stmt.join,
          [i \in 1..Len(stmt.groups) |->
              Join3(stmt.groups[i].join,
                    [j \in 1..Len(stmt.groups[i].preds) |-> PredValue(r, stmt.groups, i, j, args)])])

\* SELECT id FROM t WHERE ...: one result row per stored row on which the
\* clause is true.
ExecQuery(rows, stmt, args) == {r \in rows : Where3(r, stmt, args) = "T"}

\* ----------------------------------------------------------------- Query
\* if _, seen := set[id]; seen { continue }
Seen(set, id) == id \in set

\* A Query that forgets what it sent.
MarkSeenNever(set, id) == set

\* set[id] = true
MarkSeen(set, id) == set \cup {id}

\* Query up to its loop: the length check, then the SELECT with the
\* signature as arguments.  The storage returns the rows in any order.
QueryCall ==
    /\ Idle
    /\ inst.built
    /\ \E sig \in Signatures(inst.k * inst.l) :
        IF Len(sig) # inst.k * inst.l
        THEN /\ ret' = Returned("Query", "SizeMismatch", [sig |-> sig])
             /\ UNCHANGED <<q, out>>
        ELSE /\ \E order \in Perms(ExecQuery(table.rows, inst.queryStmt, sig)) :
                 q' = [pc |-> "next", sig |-> sig,
                       rows |-> [i \in 1..Len(order) |-> order[i].id], set |-> {}, id |-> 0]
             /\ out' = <<>>
             /\ UNCHANGED ret
    /\ UNCHANGED <<table, indexes, inst, consumer, closed>>

\* rows.Next(), rows.Scan(&id) and the seen test: at the end of the rows
\* Query returns rows.Err(); a seen id is skipped; a new one is to be sent.
QueryNext ==
    /\ q.pc = "next"
    /\ IF q.rows = <<>>
       THEN /\ q' = [q EXCEPT !.pc = "done"]
            /\ ret' = Returned("Query", "nil", [sig |-> q.sig])
       ELSE /\ q' = IF Seen(q.set, Head(q.rows))
                    THEN [q EXCEPT !.rows = Tail(q.rows)]
                    ELSE [q EXCEPT !.pc = "send", !.id = Head(q.rows), !.rows = Tail(q.rows)]
            /\ UNCHANGED ret
    /\ UNCHANGED <<table, indexes, inst, out, consumer, closed>>

\* A send that completes with no consumer receiving (a buffered sink).
QuerySendBuffered ==
    /\ q.pc = "send"
    /\ out' = Append(out, q.id)
    /\ q' = [q EXCEPT !.pc = "next", !.set = MarkSeen(q.set, q.id)]
    /\ UNCHANGED <<table, indexes, inst, consumer, closed, ret>>

\* out <- id on the unbuffered sink: the send completes when the consumer
\* receives; then set[id] = true.
QuerySend ==
    /\ q.pc = "send"
    /\ consumer = "recv"
    /\ out' = Append(out, q.id)
    /\ q' = [q EXCEPT !.pc = "next", !.set = MarkSeen(q.set, q.id)]
    /\ UNCHANGED <<table, indexes, inst, consumer, ret, closed>>

\* The consumer stops receiving while a Query is running.
ConsumerStop ==
    /\ q.pc \in {"next", "send"}
    /\ consumer = "recv"
    /\ consumer' = "stopped"
    /\ UNCHANGED <<table, indexes, inst, q, out, ret, closed>>

\* The caller closes the sink once Query has returned: close(out) after
\* lsh.Query(sig, out) in the producer goroutine.
CloseSink ==
    /\ ret.op = "Query"
    /\ ~closed
    /\ closed' = TRUE
    /\ UNCHANGED <<table, indexes, inst, q, out, consumer, ret>>

\* ------------------------------------------------------------------ Scan
\* Whether a stored row decodes to an Entry: every value is an integer.
Decodes(r) == \A c \in 1..Len(r.hv) : r.hv[c] # NULL

Entry(r) == [Id |-> r.id, Signature |-> r.hv]

RECURSIVE ScanEntries(_, _)
\* The entries Scan sends for the rows in storage order from row i on; a
\* row that does not decode ends the sequence.
ScanEntries(order, i) ==
    IF i > Len(order) \/ ~Decodes(order[i]) THEN <<>>
    ELSE <<Entry(order[i])>> \o ScanEntries(order, i + 1)

\* Scan with a consumer that receives every entry.
Scan ==
    /\ Idle
    /\ inst.built
    /\ \E order \in Perms(table.rows) :
        ret' = Returned("Scan",
                        IF \E r \in table.rows : ~Decodes(r) THEN "decode" ELSE "nil",
                        [entries |-> ScanEntries(order, 1)])
    /\ UNCHANGED <<table, indexes, inst, q, out, consumer, closed>>

\* The caller takes the result and goes on; a panic ends the process.
Continue ==
    /\ ret.op # "none"
    /\ ret.err # "panic"
    /\ ret' = NoRet
    /\ q' = QIdle
    /\ out' = <<>>
    /\ consumer' = "recv"
    /\ closed' = FALSE
    /\ UNCHANGED <<table, indexes, inst>>

Next ==
    \/ NewSqlLsh
    \/ Index
    \/ Insert
    \/ BatchInsert
    \/ QueryCall
    \/ QueryNext
    \/ QuerySend
    \/ ConsumerStop
    \/ CloseSink
    \/ Scan
    \/ Continue

Spec == Init /\ [][Next]_vars

\* The Query goroutine runs whenever it can take a step, and its send
\* completes whenever the consumer is receiving.
FairSpec == Spec /\ WF_vars(QueryNext) /\ WF_vars(QuerySend)

\* ================================================================ claims
\* A call returns in this step: op with its result.
Returns(op) == ret.op = "none" /\ ret'.op = op

StoredIds == {r.id : r \in table.rows}

\* ---------------------------------------------------------------------
\* C1: Insert(id, sig) or Query(sig, out) with len(sig) # k*l returns the
\* size-mismatch error and touches nothing: the rows and the indexes are
\* what they were, no Query is started and nothing is sent on the sink.
C1_SizeMismatchUntouched ==
    [][(/\ Returns("Insert") \/ Returns("Query")
        /\ (IF ret'.op = "Insert" THEN ret'.arg.n ELSE Len(ret'.arg.sig)) # inst.k * inst.l)
       => (/\ ret'.err = "SizeMismatch"
           /\ inst.k >= 1 /\ inst.l >= 1
           /\ table' = table /\ indexes' = indexes
           /\ q' = q /\ q.pc = "idle" /\ out' = <<>>)]_vars

\* A wrong-length Insert was rejected on a table that holds rows.
C1_Witness ==
    /\ ret.op = "Insert" /\ ret.err = "SizeMismatch"
    /\ ret.arg.n # inst.k * inst.l
    /\ table.rows # {}

\* ---------------------------------------------------------------------
\* The signature a stored row was created from: its values up to the
\* first one never assigned.
GivenSignature(r) == SelectSeq(r.hv, LAMBDA v : v # NULL)

\* C2: when Query(sig) returns, every stored row that was created from sig
\* has had its id sent on the sink.
C2_SelfMatch ==
    ret.op = "Query" =>
        \A r \in table.rows :
            GivenSignature(r) = ret.arg.sig => (ret.err = "nil" /\ r.id \in Range(out))

\* ---------------------------------------------------------------------
\* Row r agrees with signature s on all k values of band i (from 0).
BandEqual(r, s, k, i) == \A j \in 0..(k - 1) : r.hv[i * k + j + 1] = s[i * k + j + 1]

\* The ids of the rows that agree with s on at least one whole band.
Collisions(rows, s, k, l) == {r.id : r \in {x \in rows : \E i \in 0..(l - 1) : BandEqual(x, s, k, i)}}

\* C3: a Query with a signature of length k*l returns without error, and
\* the ids it sent are exactly the ids of the stored rows that agree with
\* the signature on all k values of at least one of the l bands.
C3_BandCollisions ==
    (ret.op = "Query" /\ Len(ret.arg.sig) = inst.k * inst.l) =>
        (/\ ret.err = "nil"
         /\ Range(out) = Collisions(table.rows, ret.arg.sig, inst.k, inst.l))

\* k = 2, l = 2: a row is returned that agrees on one band only, and
\* another stored row is not returned.
C3_Witness ==
    /\ ret.op = "Query" /\ ret.err = "nil"
    /\ inst.k = 2 /\ inst.l = 2
    /\ \E r \in table.rows :
        /\ r.id \in Range(out)
        /\ BandEqual(r, ret.arg.sig, 2, 0) /\ ~BandEqual(r, ret.arg.sig, 2, 1)
    /\ \E r \in table.rows : r.id \notin Range(out)

\* ---------------------------------------------------------------------
\* A batch with an invalid row: a signature whose length is not k*l, an id
\* already stored, or an id twice in the batch.
BatchInvalid(arg) ==
    \/ \E i \in 1..Len(arg.lens) : arg.lens[i] # inst.k * inst.l
    \/ \E i \in 1..Len(arg.ids) : arg.ids[i] \in StoredIds
    \/ \E i, j \in 1..Len(arg.ids) : i # j /\ arg.ids[i] = arg.ids[j]

\* C4: a BatchInsert with an invalid row does not succeed and leaves the
\* table as it was.
C4_BatchAllOrNothing ==
    [][(Returns("BatchInsert") /\ BatchInvalid(ret'.arg))
       => (ret'.err # "nil" /\ table' = table)]_vars

\* ---------------------------------------------------------------------
\* C5: Scan yields one Entry per stored row, each with the id and all k*l
\* values of the row.
C5_ScanYieldsAll ==
    ret.op = "Scan" =>
        /\ Len(ret.arg.entries) = Cardinality(table.rows)
        /\ \A r \in table.rows : \E i \in 1..Len(ret.arg.entries) :
            /\ ret.arg.entries[i].Id = r.id
            /\ ret.arg.entries[i].Signature = r.hv
            /\ Len(r.hv) = inst.k * inst.l
            /\ \A c \in 1..Len(r.hv) : r.hv[c] \in Hash

\* ---------------------------------------------------------------------
\* The l indexes ht_0 .. ht_{l-1} of the instance.
AllIndexes == {[name |-> i, cols |-> [j \in 1..inst.k |-> inst.k * i + (j - 1)]] : i \in 0..(inst.l - 1)}

\* C6: an Index() call that succeeds leaves exactly the l indexes; one
\* that fails leaves the indexes there were; a call made when indexes
\* exist fails.
C6_IndexAtomic ==
    [][Returns("Index")
       => (/\ \/ ret'.err = "nil" /\ indexes' = AllIndexes
              \/ ret'.err # "nil" /\ indexes' = indexes
           /\ indexes # {} => (ret'.err # "nil" /\ indexes' = AllIndexes))]_vars

\* A second Index() call failed on l = 2 indexes that stay.
C6_Witness ==
    /\ ret.op = "Index" /\ ret.err = "exists"
    /\ inst.l = 2
    /\ Cardinality(indexes) = 2

\* ---------------------------------------------------------------------
\* C7: a construction on a table that exists returns an error and leaves
\* the table, its rows and the instance there is as they were.
C7_ExistingTableRejected ==
    [][(Returns("NewSqlLsh") /\ table.exists)
       => (ret'.err \notin {"nil", "panic"} /\ table' = table /\ inst' = inst)]_vars

\* ---------------------------------------------------------------------
\* C8: Insert, BatchInsert and Query return, with success or an error;
\* none panics.
C8_NoPanic == ret.op \in {"Insert", "BatchInsert", "Query"} => ret.err # "panic"

\* ---------------------------------------------------------------------
\* C9: a construction with k <= 0 or l <= 0 does not succeed, creates no
\* table and builds no instance.
C9_InvalidParamsRejected ==
    [][(Returns("NewSqlLsh") /\ (ret'.arg.k <= 0 \/ ret'.arg.l <= 0))
       => (ret'.err # "nil" /\ table' = table /\ inst' = inst)]_vars

\* ---------------------------------------------------------------------
NoRepeat(s) == \A i, j \in 1..Len(s) : s[i] = s[j] => i = j

\* C10: within one Query no id is on the sink twice, and the seen-set
\* holds exactly the ids sent so far, so a later occurrence of any of
\* them is skipped; an id about to be sent has not been sent.
C10_SentOnce ==
    /\ NoRepeat(out)
    /\ q.pc # "idle" => q.set = Range(out)
    /\ q.pc = "send" => q.id \notin Range(out)

\* A Query with l = 2 sent two ids, one of a row that matches in both bands.
C10_Witness ==
    /\ ret.op = "Query" /\ ret.err = "nil"
    /\ inst.l = 2
    /\ Len(out) = 2
    /\ \E r \in table.rows : r.hv = ret.arg.sig

\* ---------------------------------------------------------------------
\* The columns of band i (from 0): hv_{i*k} .. hv_{i*k+k-1}.
BandColumns(k, i) == [j \in 1..k |-> i * k + (j - 1)]

\* Arguments that name their own position: argument p is p.
PositionArgs(n) == [p \in 1..n |-> p]

\* C11: in every instance built, index ht_i covers exactly the columns of
\* band i, in order; group i of the WHERE clause tests exactly those
\* columns, the predicate on hv_c bound to the signature value at position
\* c; every hv_ column of the table is in exactly one group; and every
\* index in storage is one of these.
C11_BandPartition ==
    inst.built =>
        /\ Len(inst.indexStmts) = inst.l
        /\ Len(inst.queryStmt.groups) = inst.l
        /\ \A i \in 1..inst.l :
            /\ inst.indexStmts[i].name = i - 1
            /\ inst.indexStmts[i].cols = BandColumns(inst.k, i - 1)
            /\ [j \in 1..Len(inst.queryStmt.groups[i].preds) |-> inst.queryStmt.groups[i].preds[j].col]
                   = BandColumns(inst.k, i - 1)
        /\ \A i \in 1..inst.l : \A j \in 1..inst.k :
            BindArg(inst.queryStmt.groups[i].preds[j].var,
                    PredsBefore(inst.queryStmt.groups, i) + j,
                    PositionArgs(inst.k * inst.l))
                = inst.queryStmt.groups[i].preds[j].col + 1
        /\ table.ncols = inst.k * inst.l
        /\ \A c \in 0..(table.ncols - 1) :
            Cardinality({i \in 1..inst.l : c \in Range(inst.indexStmts[i].cols)}) = 1
        /\ \A x \in indexes : x.name \in 0..(inst.l - 1) /\ x.cols = BandColumns(inst.k, x.name)

\* A postgres instance with k = 2, l = 2 whose two indexes were created.
C11_Witness ==
    /\ inst.built /\ inst.k = 2 /\ inst.l = 2 /\ inst.d = "postgres"
    /\ Cardinality(indexes) = 2

\* ---------------------------------------------------------------------
QueryRunning == q.pc \in {"next", "send"}

\* An id is pending on the sink and the consumer has stopped receiving.
QueryBlocked == q.pc = "send" /\ consumer = "stopped"

\* The sink is closed only in a step of its own, taken when Query has
\* returned; no step of Query closes it.
ClosedByCallerOnly == (closed' # closed /\ closed') => (ret.op = "Query" /\ ~QueryRunning /\ q' = q /\ ret' = ret)

\* A pending id leaves Query only by the consumer receiving it, and Query
\* returns only from the end of the rows with nothing pending.
ReturnsAfterReceive ==
    /\ (q.pc = "send" /\ q' # q) =>
           (consumer = "recv" /\ out' = Append(out, q.id) /\ q'.pc = "next" /\ ret' = ret)
    /\ (Returns("Query") /\ ret'.err = "nil") =>
           (q.pc = "next" /\ q.rows = <<>> /\ out' = out /\ Range(out) = q.set)

\* A blocked Query takes no step, and nothing else does.
BlockedStays == QueryBlocked => UNCHANGED vars

\* C12: Query never closes the sink, the caller does after Query has
\* returned; Query returns only after every id it sent was received; with
\* the consumer stopped on a pending id Query stays blocked for ever; and
\* a running Query whose consumer keeps receiving eventually returns.
C12_ProducerConsumer ==
    /\ [][ClosedByCallerOnly /\ ReturnsAfterReceive /\ BlockedStays]_vars
    /\ [](closed => ret.op = "Query")
    /\ [](QueryBlocked => ret.op = "none")
    /\ QueryRunning ~> (q.pc = "done" \/ consumer = "stopped")

\* The consumer received one id and stopped; Query is blocked on the next.
C12_Witness == QueryBlocked /\ Len(out) = 1 /\ ~closed
====
